---- MODULE Spec2Model ----
(***************************************************************************)
(* Encryption / decryption properties of parquet-cpp                       *)
(* (src/parquet/properties.h): ColumnEncryptionProperties,                 *)
(* FileEncryptionProperties and FileDecryptionProperties.                  *)
(*                                                                         *)
(* A std::string holding key bytes is a sequence of bytes, a column path   *)
(* string is a TLA+ string, a schema::ColumnPath is a sequence of path     *)
(* segments.  A pointer result is a sequence: <<>> is nullptr and <<v>> a  *)
(* pointer to v.                                                           *)
(***************************************************************************)
EXTENDS Integers, Sequences, FiniteSets, TLC

VARIABLES
  ndebug,               \* TRUE: NDEBUG build, DCHECK compiles to nothing
  status,               \* "running"; "aborted" (DCHECK failure, invalid free);
                        \* "undefined": a destroyed object was read, and nothing
                        \* more is said about the process
  last,                 \* the last call: operation, arguments, result, exception
  \* ---- ColumnEncryptionProperties (one object owned by the caller)
  col,
  \* ---- FileEncryptionProperties
  footer_encryption_,   \* the EncryptionProperties the footer pointer owns
  uniform_encryption_,
  columns_,
  encrypt_the_rest_,
  meta_alias,           \* index of the columns_ element a returned shared_ptr owns, 0: none
  destroyed,            \* indexes of the columns_ elements such a shared_ptr deleted
  setup,                \* history: <<>> or <<the last SetupColumns call>>
  sealed,               \* history: a SetupColumns call returned normally or a
                        \* resolution (either getter) was served
  served,               \* history: <<>> or <<the AAD of footer_encryption_ when
                        \* the first GetColumnEncryptionProperties call was served>>
  \* ---- FileDecryptionProperties
  footer_key_,
  aad_,
  column_keys_,         \* std::map: dotted path -> key
  key_retriever_,       \* <<>> (nullptr) or <<retriever>>
  registered            \* history: dotted path -> <<>> or <<key of the last SetColumnKey>>

Running == status = "running"

col_vars == <<col>>
enc_vars == <<footer_encryption_, uniform_encryption_, columns_, encrypt_the_rest_,
              meta_alias, destroyed, setup, sealed, served>>
dec_vars == <<footer_key_, aad_, column_keys_, key_retriever_, registered>>
vars == <<ndebug, status, last, col_vars, enc_vars, dec_vars>>

----------------------------------------------------------------------------
(* Bounds and input domains *)

MaxCols == 2            \* longest column vector handed to SetupColumns

Rep(n, b) == [i \in 1..n |-> b]

NoBytes == <<>>
K16a == Rep(16, 1)
K16b == Rep(16, 2)
K24 == Rep(24, 3)
K32 == Rep(32, 4)
Bad5 == Rep(5, 5)

Meta7 == <<7>>
LongMeta == Rep(257, 0)

Aad1 == <<65>>
Aad2 == <<66>>

\* <<encrypt, path, key, key_metadata>>: the column specs callers hand to
\* SetupColumns, each built by the constructor and, when key is not empty,
\* one SetEncryptionKey(key, key_metadata)
ColumnSpecInputs ==
  { <<FALSE, "a", NoBytes, NoBytes>>, <<TRUE, "a.b", NoBytes, NoBytes>>,
    <<TRUE, "a", K16a, NoBytes>>, <<TRUE, "a.b", K16b, Meta7>> }

\* (key, key_metadata) pairs given to the FileEncryptionProperties constructor
FooterInputs ==
  { <<NoBytes, NoBytes>>, <<K16a, Meta7>>, <<Bad5, NoBytes>>, <<K16b, LongMeta>> }

\* keys and key metadata given to ColumnEncryptionProperties::SetEncryptionKey
ColumnKeyInputs == { NoBytes, K16a, K16b, Bad5 }
ColumnMetaInputs == { NoBytes, Meta7 }
KeyIdInputs == { 0, 1, 258 }

\* path strings of column specs, and the ColumnPaths that are looked up
ColumnPathStrings == { "a", "a.b" }
ColumnPaths == { <<"a">>, <<"a", "b">>, <<"b">> }

\* keys given to the FileDecryptionProperties constructor and to SetColumnKey
DecryptionKeyInputs == { NoBytes, K16a, K16b, K24, K32, Bad5 }
AadInputs == { Aad1, Aad2 }

----------------------------------------------------------------------------
(* External collaborators *)

\* schema::ColumnPath::ToDotString: the segments joined by '.'
RECURSIVE ToDotString(_)
ToDotString(path) ==
  IF Len(path) = 0 THEN ""
  ELSE IF Len(path) = 1 THEN path[1]
  ELSE path[1] \o "." \o ToDotString(Tail(path))

\* EncryptionProperties(algorithm, key, key_metadata, aad)
EncryptionProperties(algorithm, key, key_metadata, aad) ==
  [algorithm |-> algorithm, key |-> key, key_metadata |-> key_metadata, aad |-> aad]

\* DecryptionKeyRetriever::GetKey: <<key>> when the metadata is resolved, <<>>
\* when the retriever fails (it throws)
RetrieverA == [m \in {Meta7, LongMeta} |-> IF m = Meta7 THEN <<K16a>> ELSE <<>>]
RetrieverB == [m \in {Meta7, LongMeta} |-> IF m = Meta7 THEN <<K24>> ELSE <<K16b>>]
Retrievers == { RetrieverA, RetrieverB }

----------------------------------------------------------------------------
(* Exceptions: the text each throw statement carries *)

NoThrow == ""
ExcUnencryptedColumn == "ParquetException: Setting key on unencrypted column"
ExcNullKey == "ParquetException: Null key"
ExcRestNullFooter == "ParquetException: Encrypt the rest with null footer key"
ExcColumnNullFooter == "ParquetException: Encrypt column with null footer key"
ExcAllUnencrypted == "ParquetException: Footer and all columns unencrypted"
ExcNoRetrieverColumn ==
  "ParquetException: no key retriever is provided for column key metadata"
ExcNoRetrieverFooter ==
  "ParquetException: no key retriever is provided for footer key metadata"
ExcOutOfRange == "std::out_of_range"
ExcRetriever == "exception thrown by DecryptionKeyRetriever::GetKey"

\* the condition the DCHECKs on key lengths state
ValidKeyLength(key) == Len(key) = 16 \/ Len(key) = 24 \/ Len(key) = 32

MaxKeyMetadataLength == 256

\* a call record; fields an operation does not use keep these values
NoCall ==
  [op |-> "none", path |-> "", key |-> NoBytes, key_metadata |-> NoBytes,
   columns |-> <<>>, rest |-> FALSE, val |-> <<>>, shared |-> FALSE,
   thrown |-> NoThrow]

----------------------------------------------------------------------------
(* ColumnEncryptionProperties *)

\* ColumnEncryptionProperties(bool encrypt, std::string path)
NewColumn(encrypt, path) ==
  [encrypt_ |-> encrypt, path_ |-> path, encrypted_with_footer_key_ |-> encrypt,
   key_ |-> NoBytes, key_metadata_ |-> NoBytes]

\* what SetEncryptionKey(key, key_metadata) throws on c, NoThrow if nothing
SetEncryptionKeyThrows(c, key) ==
  IF ~c.encrypt_ THEN ExcUnencryptedColumn
  ELSE IF key = NoBytes THEN ExcNullKey
  ELSE NoThrow

\* faulty variant of SetEncryptionKeyDone: encrypted_with_footer_key_ is left as it was
SetEncryptionKeyDone_KeepsFooterFlag(c, key, key_metadata) ==
  [c EXCEPT !.key_ = key, !.key_metadata_ = key_metadata]

\* the object after SetEncryptionKey(key, key_metadata) returned normally
SetEncryptionKeyDone(c, key, key_metadata) ==
  [c EXCEPT !.encrypted_with_footer_key_ = FALSE,
            !.key_ = key,
            !.key_metadata_ = key_metadata]

\* SetEncryptionKey(key, key_id): the 4 bytes of key_id (little endian) when
\* key_id is not 0, else no metadata
KeyIdMetadata(key_id) ==
  IF key_id = 0 THEN NoBytes
  ELSE << key_id % 256, (key_id \div 256) % 256,
          (key_id \div 65536) % 256, (key_id \div 16777216) % 256 >>

\* the ColumnEncryptionProperties objects built from ColumnSpecInputs
ColumnSpecs ==
  { IF in[3] = NoBytes THEN NewColumn(in[1], in[2])
    ELSE SetEncryptionKeyDone(NewColumn(in[1], in[2]), in[3], in[4]) :
    in \in ColumnSpecInputs }

ColumnVectors == UNION { [1..n -> ColumnSpecs] : n \in 0..MaxCols }

ConstructColumn(encrypt, path) ==
  /\ Running
  /\ col' = NewColumn(encrypt, path)
  /\ last' = [NoCall EXCEPT !.op = "ColumnEncryptionProperties", !.path = path]
  /\ UNCHANGED <<ndebug, status, enc_vars, dec_vars>>

SetEncryptionKey(key, key_metadata) ==
  /\ Running
  /\ LET t == SetEncryptionKeyThrows(col, key) IN
       /\ col' = IF t = NoThrow THEN SetEncryptionKeyDone(col, key, key_metadata)
                 ELSE col
       /\ last' = [NoCall EXCEPT !.op = "SetEncryptionKey", !.path = col.path_,
                                 !.key = key, !.key_metadata = key_metadata,
                                 !.thrown = t]
  /\ UNCHANGED <<ndebug, status, enc_vars, dec_vars>>

SetEncryptionKeyId(key, key_id) ==
  SetEncryptionKey(key, KeyIdMetadata(key_id))

----------------------------------------------------------------------------
(* FileEncryptionProperties *)

Algorithm == "AES_GCM_V1"

\* the DCHECKs of the constructor hold for (key, key_metadata)
FileEncryptionChecks(key, key_metadata) ==
  /\ ValidKeyLength(key)
  /\ key_metadata # NoBytes => Len(key_metadata) <= MaxKeyMetadataLength

\* FileEncryptionProperties(algorithm, key, key_metadata) aborts: a failed
\* DCHECK ends the process in a debug build and is compiled out under NDEBUG
FileEncryptionAborts(key, key_metadata) ==
  ~ndebug /\ ~FileEncryptionChecks(key, key_metadata)

\* The object FileEncryptionProperties(algorithm, key, key_metadata) leaves.
\* encrypt_the_rest_ has no initializer: its value is indeterminate.
FileEncryptionConstructed(key, key_metadata, indeterminate) ==
  /\ footer_encryption_ =
       IF FileEncryptionAborts(key, key_metadata) THEN <<>>
       ELSE <<EncryptionProperties(Algorithm, key, key_metadata, NoBytes)>>
  /\ uniform_encryption_ = (~FileEncryptionAborts(key, key_metadata) /\ key # NoBytes)
  /\ columns_ = <<>>
  /\ encrypt_the_rest_ = indeterminate
  /\ meta_alias = 0
  /\ destroyed = {}
  /\ setup = <<>>
  /\ sealed = FALSE
  /\ served = <<>>

FooterKey == footer_encryption_[1].key

\* the first loop of SetupColumns from element i on: FALSE at the first
\* column whose key differs from the footer key, TRUE when none does
RECURSIVE ScanUniform(_, _, _)
ScanUniform(columns, key, i) ==
  IF i > Len(columns) THEN TRUE
  ELSE IF columns[i].key_ # key THEN FALSE
  ELSE ScanUniform(columns, key, i + 1)

\* faulty variant of ScanNullFooter: all_are_unencrypted is not looked at after the loop
RECURSIVE ScanNullFooter_NoFinalCheck(_, _, _)
ScanNullFooter_NoFinalCheck(columns, i, all_are_unencrypted) ==
  IF i > Len(columns) THEN NoThrow
  ELSE IF columns[i].encrypt_ /\ columns[i].key_ = NoBytes THEN ExcColumnNullFooter
  ELSE ScanNullFooter_NoFinalCheck(columns, i + 1, all_are_unencrypted)

\* the second loop of SetupColumns from element i on: the exception thrown
\* inside the loop, or after it when all_are_unencrypted is still true
RECURSIVE ScanNullFooter(_, _, _)
ScanNullFooter(columns, i, all_are_unencrypted) ==
  IF i > Len(columns)
  THEN IF all_are_unencrypted THEN ExcAllUnencrypted ELSE NoThrow
  ELSE IF columns[i].encrypt_
       THEN IF columns[i].key_ = NoBytes THEN ExcColumnNullFooter
            ELSE ScanNullFooter(columns, i + 1, FALSE)
       ELSE ScanNullFooter(columns, i + 1, all_are_unencrypted)

\* faulty variant of SetupColumnsThrows: encrypt_the_rest is not looked at
SetupColumnsThrows_IgnoresRest(key, columns, encrypt_the_rest) ==
  IF key # NoBytes THEN NoThrow
  ELSE ScanNullFooter(columns, 1, TRUE)

\* what SetupColumns(columns, encrypt_the_rest) throws for a footer key
SetupColumnsThrows(key, columns, encrypt_the_rest) ==
  IF key # NoBytes THEN NoThrow
  ELSE IF encrypt_the_rest THEN ExcRestNullFooter
  ELSE ScanNullFooter(columns, 1, TRUE)

\* faulty variant of SetupColumnsUniform: a column without a key counts as carrying
\* the footer key
SetupColumnsUniform_UnsetMatches(key, columns, uniform) ==
  IF key # NoBytes
  THEN \A i \in 1..Len(columns) : columns[i].key_ \in {key, NoBytes}
  ELSE uniform

\* uniform_encryption_ when SetupColumns is left (normally or by a throw)
SetupColumnsUniform(key, columns, uniform) ==
  IF key # NoBytes THEN ScanUniform(columns, key, 1) ELSE uniform

\* SetupColumns(columns, encrypt_the_rest).  columns_ = columns assigns to
\* the elements columns_ holds: when one of them was destroyed that is
\* undefined behaviour, and the call aborts the process or goes through.
SetupColumns(columns, encrypt_the_rest) ==
  /\ Running
  /\ meta_alias = 0
  /\ \/ /\ destroyed # {}
        /\ status' = "aborted"
        /\ last' = [NoCall EXCEPT !.op = "SetupColumns"]
        /\ UNCHANGED <<encrypt_the_rest_, columns_, uniform_encryption_, destroyed,
                       setup, sealed>>
     \/ /\ encrypt_the_rest_' = encrypt_the_rest
        /\ columns_' = columns
        /\ destroyed' = {}
        /\ uniform_encryption_' =
             SetupColumnsUniform(FooterKey, columns, uniform_encryption_)
        /\ last' = [NoCall EXCEPT !.op = "SetupColumns", !.columns = columns,
                                  !.rest = encrypt_the_rest,
                                  !.thrown = SetupColumnsThrows(FooterKey, columns,
                                                                encrypt_the_rest)]
        /\ setup' = <<last'>>
        /\ sealed' = (sealed \/ last'.thrown = NoThrow)
        /\ UNCHANGED status
  /\ UNCHANGED <<ndebug, footer_encryption_, meta_alias, served, col_vars, dec_vars>>

\* index of the first element of columns whose path is path_str, 0 if none
RECURSIVE FindColumn(_, _, _)
FindColumn(columns, path_str, i) ==
  IF i > Len(columns) THEN 0
  ELSE IF columns[i].path_ = path_str THEN i
  ELSE FindColumn(columns, path_str, i + 1)

\* what the bytes of a columns_ element can read as once the element was
\* destroyed and its storage handed to operator delete: any value, here any
\* value of the input domain
DestroyedColumns == ColumnSpecs

\* the vectors a loop over columns_ can read: the elements in `destroyed`
\* read as any value, the others as they are
ColumnsAsRead ==
  { [i \in 1..Len(columns_) |-> IF i \in destroyed THEN g[i] ELSE columns_[i]] :
      g \in [destroyed -> DestroyedColumns] }

\* the loop over columns_ looking for path reads a destroyed element: it
\* reads the elements up to the first one whose path matches
ReadsDestroyed(columns, path) ==
  LET i == FindColumn(columns, ToDotString(path), 1)
      n == IF i = 0 THEN Len(columns) ELSE i
  IN ~uniform_encryption_ /\ \E j \in destroyed : j <= n

\* the element of columns the shared_ptr GetColumnCryptoMetaData(path)
\* returns takes ownership of (0: the result is a fresh object)
CryptoMetaDataAlias(columns, path) ==
  IF uniform_encryption_ THEN 0
  ELSE FindColumn(columns, ToDotString(path), 1)

\* the object GetColumnCryptoMetaData(path) returns a pointer to, columns
\* being what columns_ reads as
CryptoMetaData(columns, path) ==
  IF uniform_encryption_ THEN NewColumn(TRUE, ToDotString(path))
  ELSE IF FindColumn(columns, ToDotString(path), 1) # 0
       THEN columns[FindColumn(columns, ToDotString(path), 1)]
  ELSE IF encrypt_the_rest_ THEN NewColumn(TRUE, ToDotString(path))
  ELSE NewColumn(FALSE, ToDotString(path))

\* GetColumnCryptoMetaData(path).  The caller holds one returned pointer at
\* a time (meta_alias = 0: the one before was dropped).
GetColumnCryptoMetaData(path) ==
  /\ Running
  /\ meta_alias = 0
  /\ \E columns \in ColumnsAsRead :
       /\ meta_alias' = CryptoMetaDataAlias(columns, path)
       /\ last' = [NoCall EXCEPT !.op = "GetColumnCryptoMetaData",
                                 !.path = ToDotString(path),
                                 !.val = <<CryptoMetaData(columns, path)>>,
                                 !.shared = (CryptoMetaDataAlias(columns, path) # 0)]
       /\ status' = IF ReadsDestroyed(columns, path) THEN "undefined" ELSE status
  /\ sealed' = TRUE
  /\ UNCHANGED <<ndebug, footer_encryption_, uniform_encryption_, columns_,
                 encrypt_the_rest_, destroyed, setup, served, col_vars, dec_vars>>

\* The caller drops the shared_ptr GetColumnCryptoMetaData returned for a
\* listed column.  Its deleter runs `delete` on an element of columns_:
\* undefined behaviour.  The allocator aborts the process, or the element is
\* destroyed in place and its storage released while columns_ still holds it.
ReleaseCryptoMetaData ==
  /\ Running
  /\ meta_alias # 0
  /\ \/ /\ status' = "aborted"
        /\ UNCHANGED destroyed
     \/ /\ destroyed' = destroyed \cup {meta_alias}
        /\ UNCHANGED status
  /\ meta_alias' = 0
  /\ last' = [NoCall EXCEPT !.op = "~shared_ptr<ColumnEncryptionProperties>"]
  /\ UNCHANGED <<ndebug, footer_encryption_, uniform_encryption_, columns_,
                 encrypt_the_rest_, setup, sealed, served, col_vars, dec_vars>>

\* GetColumnEncryptionProperties(path) returns footer_encryption_ itself
ReturnsFooterEncryption(columns, path) ==
  \/ uniform_encryption_
  \/ FindColumn(columns, ToDotString(path), 1) = 0 /\ encrypt_the_rest_

\* the pointer GetColumnEncryptionProperties(path) returns, columns being
\* what columns_ reads as
ColumnEncryption(columns, path) ==
  LET i == FindColumn(columns, ToDotString(path), 1) IN
    IF uniform_encryption_ THEN footer_encryption_
    ELSE IF i # 0
         THEN <<EncryptionProperties(footer_encryption_[1].algorithm, columns[i].key_,
                                     columns[i].key_metadata_,
                                     footer_encryption_[1].aad)>>
    ELSE IF encrypt_the_rest_ THEN footer_encryption_
    ELSE <<>>

GetColumnEncryptionProperties(path) ==
  /\ Running
  /\ \E columns \in ColumnsAsRead :
       /\ last' = [NoCall EXCEPT !.op = "GetColumnEncryptionProperties",
                                 !.path = ToDotString(path),
                                 !.val = ColumnEncryption(columns, path),
                                 !.shared = ReturnsFooterEncryption(columns, path)]
       /\ status' = IF ReadsDestroyed(columns, path) THEN "undefined" ELSE status
  /\ sealed' = TRUE
  /\ served' = IF served = <<>> THEN <<footer_encryption_[1].aad>> ELSE served
  /\ UNCHANGED <<ndebug, footer_encryption_, uniform_encryption_, columns_,
                 encrypt_the_rest_, meta_alias, destroyed, setup, col_vars, dec_vars>>

\* SetupAad(aad): footer_encryption_->aad(aad)
SetupAad(aad) ==
  /\ Running
  /\ footer_encryption_' = <<[footer_encryption_[1] EXCEPT !.aad = aad]>>
  /\ last' = [NoCall EXCEPT !.op = "SetupAad", !.key = aad]
  /\ UNCHANGED <<ndebug, status, uniform_encryption_, columns_, encrypt_the_rest_,
                 meta_alias, destroyed, setup, sealed, served, col_vars, dec_vars>>

----------------------------------------------------------------------------
(* FileDecryptionProperties *)

RegisteredKeyInputs == { NoBytes, K16a, K24, Bad5 }
NameInputs == { "a", "a.b" }
MetadataInputs == { NoBytes, Meta7, LongMeta }
DotStrings == { ToDotString(p) : p \in ColumnPaths } \cup NameInputs

\* FileDecryptionProperties(footer_key) aborts on its DCHECK
FileDecryptionAborts(footer_key) == ~ndebug /\ ~ValidKeyLength(footer_key)

\* the object FileDecryptionProperties(footer_key) leaves
FileDecryptionFromKey(footer_key) ==
  /\ footer_key_ = footer_key
  /\ aad_ = NoBytes
  /\ column_keys_ = [d \in DotStrings |-> <<>>]
  /\ key_retriever_ = <<>>
  /\ registered = [d \in DotStrings |-> <<>>]

\* the object FileDecryptionProperties(key_retriever) leaves
FileDecryptionFromRetriever(retriever) ==
  /\ footer_key_ = NoBytes
  /\ aad_ = NoBytes
  /\ column_keys_ = [d \in DotStrings |-> <<>>]
  /\ key_retriever_ = <<retriever>>
  /\ registered = [d \in DotStrings |-> <<>>]

SetAad(aad) ==
  /\ Running
  /\ aad_' = aad
  /\ last' = [NoCall EXCEPT !.op = "SetAad", !.key = aad]
  /\ UNCHANGED <<ndebug, status, footer_key_, column_keys_, key_retriever_,
                 registered, col_vars, enc_vars>>

\* SetColumnKey(paths, key)
SetColumnKey(paths, key) ==
  /\ Running
  /\ IF ~ndebug /\ ~ValidKeyLength(key)
     THEN status' = "aborted" /\ UNCHANGED <<column_keys_, registered>>
     ELSE /\ column_keys_' = [column_keys_ EXCEPT ![ToDotString(paths)] = <<key>>]
          /\ registered' = [registered EXCEPT ![ToDotString(paths)] = <<key>>]
          /\ UNCHANGED status
  /\ last' = [NoCall EXCEPT !.op = "SetColumnKey", !.path = ToDotString(paths),
                            !.key = key]
  /\ UNCHANGED <<ndebug, footer_key_, aad_, key_retriever_, col_vars, enc_vars>>

\* SetColumnKey(name, key)
SetColumnKeyByName(name, key) == SetColumnKey(<<name>>, key)

\* key_retriever_->GetKey(key_metadata)
RetrieverResult(key_metadata) ==
  IF key_retriever_[1][key_metadata] = <<>>
  THEN [val |-> <<>>, thrown |-> ExcRetriever]
  ELSE [val |-> key_retriever_[1][key_metadata], thrown |-> NoThrow]

\* faulty variant of ColumnKey: the map is searched for the first path segment
ColumnKey_FirstSegment(columnPath, key_metadata) ==
  IF key_metadata = NoBytes
  THEN IF column_keys_[columnPath[1]] = <<>>
       THEN [val |-> <<>>, thrown |-> ExcOutOfRange]
       ELSE [val |-> column_keys_[columnPath[1]], thrown |-> NoThrow]
  ELSE IF key_retriever_ = <<>>
       THEN [val |-> <<>>, thrown |-> ExcNoRetrieverColumn]
       ELSE RetrieverResult(key_metadata)

\* faulty variant of ColumnKey: a key registered for the path is returned whatever
\* the key metadata
ColumnKey_StaticFirst(columnPath, key_metadata) ==
  IF column_keys_[ToDotString(columnPath)] # <<>>
  THEN [val |-> column_keys_[ToDotString(columnPath)], thrown |-> NoThrow]
  ELSE IF key_metadata = NoBytes THEN [val |-> <<>>, thrown |-> ExcOutOfRange]
  ELSE IF key_retriever_ = <<>>
       THEN [val |-> <<>>, thrown |-> ExcNoRetrieverColumn]
       ELSE RetrieverResult(key_metadata)

\* GetColumnKey(columnPath, key_metadata): the key returned or the exception
ColumnKey(columnPath, key_metadata) ==
  IF key_metadata = NoBytes
  THEN IF column_keys_[ToDotString(columnPath)] = <<>>
       THEN [val |-> <<>>, thrown |-> ExcOutOfRange]
       ELSE [val |-> column_keys_[ToDotString(columnPath)], thrown |-> NoThrow]
  ELSE IF key_retriever_ = <<>>
       THEN [val |-> <<>>, thrown |-> ExcNoRetrieverColumn]
       ELSE RetrieverResult(key_metadata)

GetColumnKey(columnPath, key_metadata) ==
  /\ Running
  /\ last' = [NoCall EXCEPT !.op = "GetColumnKey", !.path = ToDotString(columnPath),
                            !.key_metadata = key_metadata,
                            !.val = ColumnKey(columnPath, key_metadata).val,
                            !.thrown = ColumnKey(columnPath, key_metadata).thrown]
  /\ UNCHANGED <<ndebug, status, dec_vars, col_vars, enc_vars>>

\* GetFooterKey(footer_key_metadata): the key returned or the exception
FooterKeyResult(footer_key_metadata) ==
  IF footer_key_metadata = NoBytes
  THEN [val |-> <<footer_key_>>, thrown |-> NoThrow]
  ELSE IF key_retriever_ = <<>>
       THEN [val |-> <<>>, thrown |-> ExcNoRetrieverFooter]
       ELSE RetrieverResult(footer_key_metadata)

GetFooterKey(footer_key_metadata) ==
  /\ Running
  /\ last' = [NoCall EXCEPT !.op = "GetFooterKey",
                            !.key_metadata = footer_key_metadata,
                            !.val = FooterKeyResult(footer_key_metadata).val,
                            !.thrown = FooterKeyResult(footer_key_metadata).thrown]
  /\ UNCHANGED <<ndebug, status, dec_vars, col_vars, enc_vars>>

----------------------------------------------------------------------------
(* Specifications.  Each one runs the calls on one of the three classes;   *)
(* the objects of the other two stay as constructed.                       *)

ColumnIdle == col = NewColumn(FALSE, "a")
FileEncryptionIdle == FileEncryptionConstructed(K16a, NoBytes, FALSE)
FileDecryptionIdle == FileDecryptionFromKey(K16a)

\* a FileEncryptionProperties was constructed
Init ==
  /\ ndebug \in BOOLEAN
  /\ \E in \in FooterInputs, indeterminate \in BOOLEAN :
       /\ FileEncryptionConstructed(in[1], in[2], indeterminate)
       /\ status = IF FileEncryptionAborts(in[1], in[2]) THEN "aborted" ELSE "running"
       /\ last = [NoCall EXCEPT !.op = "FileEncryptionProperties", !.key = in[1],
                                !.key_metadata = in[2]]
  /\ ColumnIdle
  /\ FileDecryptionIdle

Next ==
  \/ \E columns \in ColumnVectors, rest \in BOOLEAN : SetupColumns(columns, rest)
  \/ \E path \in ColumnPaths : GetColumnCryptoMetaData(path)
  \/ ReleaseCryptoMetaData
  \/ \E path \in ColumnPaths : GetColumnEncryptionProperties(path)
  \/ \E aad \in {Aad1} : SetupAad(aad)

Spec == Init /\ [][Next]_vars

\* a FileDecryptionProperties was constructed, from a key or from a retriever
DecInit ==
  /\ ndebug \in BOOLEAN
  /\ \/ \E key \in DecryptionKeyInputs :
          /\ FileDecryptionFromKey(key)
          /\ status = IF FileDecryptionAborts(key) THEN "aborted" ELSE "running"
          /\ last = [NoCall EXCEPT !.op = "FileDecryptionProperties", !.key = key]
     \/ \E retriever \in Retrievers :
          /\ FileDecryptionFromRetriever(retriever)
          /\ status = "running"
          /\ last = [NoCall EXCEPT !.op = "FileDecryptionProperties"]
  /\ ColumnIdle
  /\ FileEncryptionIdle

DecNext ==
  \/ \E aad \in AadInputs : SetAad(aad)
  \/ \E paths \in ColumnPaths, key \in RegisteredKeyInputs : SetColumnKey(paths, key)
  \/ \E name \in NameInputs, key \in RegisteredKeyInputs : SetColumnKeyByName(name, key)
  \/ \E path \in ColumnPaths, m \in MetadataInputs : GetColumnKey(path, m)
  \/ \E m \in MetadataInputs : GetFooterKey(m)

DecSpec == DecInit /\ [][DecNext]_vars

\* a ColumnEncryptionProperties was constructed
ColInit ==
  /\ ndebug \in BOOLEAN
  /\ status = "running"
  /\ \E encrypt \in BOOLEAN, path \in ColumnPathStrings :
       /\ col = NewColumn(encrypt, path)
       /\ last = [NoCall EXCEPT !.op = "ColumnEncryptionProperties", !.path = path]
  /\ FileEncryptionIdle
  /\ FileDecryptionIdle

ColNext ==
  \/ \E encrypt \in BOOLEAN, path \in ColumnPathStrings : ConstructColumn(encrypt, path)
  \/ \E key \in ColumnKeyInputs, m \in ColumnMetaInputs : SetEncryptionKey(key, m)
  \/ \E key \in ColumnKeyInputs, id \in KeyIdInputs : SetEncryptionKeyId(key, id)

ColSpec == ColInit /\ [][ColNext]_vars

----------------------------------------------------------------------------
(* Error kinds of the specification, as sets of the exceptions above *)

InvalidConfiguration ==
  { ExcUnencryptedColumn, ExcNullKey, ExcRestNullFooter, ExcColumnNullFooter,
    ExcAllUnencrypted }
KeyNotFound == { ExcOutOfRange }
MissingKeyRetriever == { ExcNoRetrieverColumn, ExcNoRetrieverFooter }
KeyRetrievalFailed == { ExcRetriever }

----------------------------------------------------------------------------
(* Claims on FileEncryptionProperties, checked under Spec *)

\* the last call was SetupColumns and it ran (it returned or threw)
AfterSetupColumns == status = "running" /\ last.op = "SetupColumns"

\* the last call was SetupColumns and it returned normally
SetupColumnsSucceeded == AfterSetupColumns /\ last.thrown = NoThrow

\* the last SetupColumns call on the policy returned normally
IsSetUp == setup # <<>> /\ setup[1].thrown = NoThrow

\* path is not the path of any spec handed to the last SetupColumns call
Unlisted(path_str) == FindColumn(setup[1].columns, path_str, 1) = 0

\* the spec of the last SetupColumns call that path_str matches
Listed(path_str) == setup[1].columns[FindColumn(setup[1].columns, path_str, 1)]

\* C1 as stated: after a successful SetupColumns, uniform_encryption is true
\* iff the footer key is non-empty and every listed spec's key equals the
\* footer key or is unset.
C1_UniformIffKeysEqualOrUnset ==
  SetupColumnsSucceeded =>
    (uniform_encryption_ <=>
       /\ FooterKey # NoBytes
       /\ \A i \in 1..Len(last.columns) :
            last.columns[i].key_ \in {FooterKey, NoBytes})

\* C1 amended: after a successful SetupColumns, uniform_encryption is true
\* iff the footer key is non-empty and every listed spec's key equals the
\* footer key; a spec with an unset key makes it false like one with another
\* key, at any position.
C1_UniformIffKeysEqual ==
  SetupColumnsSucceeded =>
    (uniform_encryption_ <=>
       /\ FooterKey # NoBytes
       /\ \A i \in 1..Len(last.columns) : last.columns[i].key_ = FooterKey)

\* C1 witness: a successful setup whose second spec, behind one carrying the
\* footer key, has no key, and which is not uniform
C1_Witness ==
  /\ SetupColumnsSucceeded
  /\ Len(last.columns) = 2
  /\ FooterKey # NoBytes
  /\ last.columns[1].key_ = FooterKey
  /\ last.columns[2].key_ = NoBytes
  /\ ~uniform_encryption_

\* C2: on a set-up policy a column that is not listed is encrypted with the
\* footer key when encrypt_the_rest is true and is unencrypted (metadata
\* encrypted = false, no key material) when it is false.
C2_UnlistedFollowsEncryptTheRest ==
  (status = "running" /\ IsSetUp /\ Unlisted(last.path)) =>
    /\ last.op = "GetColumnCryptoMetaData" =>
         IF setup[1].rest
         THEN last.val[1].encrypt_ /\ last.val[1].encrypted_with_footer_key_
         ELSE ~last.val[1].encrypt_
    /\ last.op = "GetColumnEncryptionProperties" =>
         IF setup[1].rest
         THEN last.val # <<>> /\ last.val[1].key = FooterKey
         ELSE last.val = <<>>

\* what C3 says GetColumnCryptoMetadata(path_str) returns
C3_Expected(path_str) ==
  IF uniform_encryption_ THEN NewColumn(TRUE, path_str)
  ELSE IF ~Unlisted(path_str) THEN Listed(path_str)
  ELSE IF setup[1].rest THEN NewColumn(TRUE, path_str)
  ELSE NewColumn(FALSE, path_str)

\* C3: on a set-up policy GetColumnCryptoMetadata(path) returns the
\* footer-keyed spec for path in uniform mode and, in non-uniform mode, the
\* listed spec itself, else the footer-keyed spec when encrypt_the_rest,
\* else the unencrypted spec.
C3_CryptoMetadataTable ==
  (IsSetUp /\ last.op = "GetColumnCryptoMetaData") =>
    last.val = <<C3_Expected(last.path)>>

\* C4: in non-uniform mode GetColumnEncryptionKey(path) gives the explicit
\* key for a path listed with a key, nothing for a path listed as
\* unencrypted, the footer key material for an unlisted path with
\* encrypt_the_rest, and nothing for an unlisted path without it.
C4_EncryptionKeyTable ==
  (status = "running" /\ IsSetUp /\ ~uniform_encryption_
     /\ last.op = "GetColumnEncryptionProperties") =>
    IF Unlisted(last.path)
    THEN IF setup[1].rest THEN last.val = footer_encryption_ ELSE last.val = <<>>
    ELSE /\ Listed(last.path).key_ # NoBytes =>
              last.val # <<>> /\ last.val[1].key = Listed(last.path).key_
         /\ ~Listed(last.path).encrypt_ => last.val = <<>>

\* C5: with an empty footer key SetupColumns succeeds iff encrypt_the_rest
\* is false, no spec is encrypted with an empty key and some spec is
\* encrypted; otherwise it fails with InvalidConfiguration.
C5_NullFooterSetup ==
  (AfterSetupColumns /\ FooterKey = NoBytes) =>
    /\ last.thrown = NoThrow <=>
         /\ ~last.rest
         /\ \A i \in 1..Len(last.columns) :
              ~(last.columns[i].encrypt_ /\ last.columns[i].key_ = NoBytes)
         /\ \E i \in 1..Len(last.columns) : last.columns[i].encrypt_
    /\ last.thrown # NoThrow => last.thrown \in InvalidConfiguration

\* C5 witness: a setup that succeeded on a policy with no footer key, with an
\* unencrypted spec next to a keyed one
C5_Witness ==
  /\ SetupColumnsSucceeded
  /\ FooterKey = NoBytes
  /\ \E i, j \in 1..Len(last.columns) :
       ~last.columns[i].encrypt_ /\ last.columns[j].key_ # NoBytes

\* no spec of the last SetupColumns call is marked encrypted
C6_NoneEncrypted ==
  \A i \in 1..Len(last.columns) : ~last.columns[i].encrypt_

\* C6 as stated: SetupColumns(columns, false) fails with InvalidConfiguration
\* whenever no spec is marked encrypted, whatever the footer key.
C6_NothingEncryptedFails ==
  (AfterSetupColumns /\ ~last.rest /\ C6_NoneEncrypted) =>
    last.thrown \in InvalidConfiguration

\* C6 amended: SetupColumns(columns, false) with no spec marked encrypted
\* fails with InvalidConfiguration when the footer key is empty, and
\* succeeds when the footer key is not empty.
C6_NothingEncryptedFailsOnNullFooter ==
  (AfterSetupColumns /\ ~last.rest /\ C6_NoneEncrypted) =>
    IF FooterKey = NoBytes THEN last.thrown = ExcAllUnencrypted
    ELSE last.thrown = NoThrow

\* C6 witness: the call failed on a policy with no footer key, given a list
\* of one unencrypted spec
C6_Witness ==
  /\ AfterSetupColumns
  /\ ~last.rest
  /\ Len(last.columns) = 1
  /\ C6_NoneEncrypted
  /\ FooterKey = NoBytes
  /\ last.thrown = ExcAllUnencrypted

\* C11: SetupColumns takes effect once per policy: once a SetupColumns call
\* has succeeded or a first resolution has been served, the policy is sealed
\* and no later call, another SetupColumns included, changes its column
\* list, its encrypt_the_rest flag or its uniform_encryption flag: they stay
\* the ones they were when the policy was sealed.
C11_SealedSetupIsFinal ==
  [][sealed => /\ columns_' = columns_
               /\ encrypt_the_rest_' = encrypt_the_rest_
               /\ uniform_encryption_' = uniform_encryption_]_vars

\* an AAD was set on the policy
AadIsSet == footer_encryption_[1].aad # NoBytes

\* C12: the AAD of a policy is set at most once and only before the first
\* key resolution: a SetupAad issued after an AAD was set, or after a
\* GetColumnEncryptionProperties call was served, is reported as a caller
\* error and not applied, so that the key material every call hands out
\* carries the AAD that was in force when the first call was served.
C12_AadSetOnceBeforeUse ==
  /\ [][(last'.op = "SetupAad" /\ (AadIsSet \/ served # <<>>)) =>
          /\ last'.thrown \in InvalidConfiguration
          /\ footer_encryption_' = footer_encryption_]_vars
  /\ []((status = "running" /\ last.op = "GetColumnEncryptionProperties"
           /\ last.val # <<>>) => last.val[1].aad = served[1])

\* the metadata and the key material resolved for one path agree
C14_Agree(meta, material) ==
  /\ meta.encrypt_ <=> (material # <<>> /\ material[1].key # NoBytes)
  /\ meta.encrypted_with_footer_key_ =>
       (material # <<>> /\ material[1].key = FooterKey)

\* C14: on a policy on which SetupColumns succeeded the two resolvers agree
\* for every path: GetColumnCryptoMetaData reports encrypted = true iff
\* GetColumnEncryptionProperties returns key material with a non-empty key,
\* and when the metadata reports encrypted_with_footer_key the key of the
\* material is the footer key; a column listed as encrypted without a key
\* of its own is encrypted with the footer key, never with an empty key.
\* Stated for the result of the last call against what the other resolver
\* returns in the same state, while no element of columns_ was destroyed.
C14_ResolversAgree ==
  (status = "running" /\ IsSetUp /\ destroyed = {}) =>
    \A path \in ColumnPaths :
      /\ (last.op = "GetColumnCryptoMetaData" /\ last.path = ToDotString(path)) =>
           C14_Agree(last.val[1], ColumnEncryption(columns_, path))
      /\ (last.op = "GetColumnEncryptionProperties" /\ last.path = ToDotString(path)) =>
           C14_Agree(CryptoMetaData(columns_, path), last.val)

----------------------------------------------------------------------------
(* Claims on the keys the classes accept, checked under ColSpec *)

\* the calls that are handed a secret key
KeyAcceptingCalls ==
  { "FileEncryptionProperties", "FileDecryptionProperties", "SetColumnKey",
    "SetEncryptionKey" }

\* the secret keys the objects hold
KeysHeld ==
  {col.key_, footer_key_}
    \cup { footer_encryption_[i].key : i \in 1..Len(footer_encryption_) }
    \cup { column_keys_[d][1] : d \in { e \in DotStrings : column_keys_[e] # <<>> } }

\* C7: every call that accepts a secret key fails with InvalidConfiguration
\* for a non-empty key whose length is not 16, 24 or 32, so no object holds
\* a non-empty key of another length.
C7_KeyLengthsValidated ==
  status = "running" =>
    /\ (last.op \in KeyAcceptingCalls /\ last.key # NoBytes /\ ~ValidKeyLength(last.key))
         => last.thrown \in InvalidConfiguration
    /\ \A key \in KeysHeld : key = NoBytes \/ ValidKeyLength(key)

----------------------------------------------------------------------------
(* Claims on ColumnEncryptionProperties, checked under ColSpec *)

\* C13: in every state a column spec reaches through the constructor and
\* any sequence of SetEncryptionKey calls, encrypted_with_footer_key implies
\* an empty key, and a non-empty key implies encrypted and not
\* encrypted_with_footer_key; a SetEncryptionKey call fails exactly when the
\* spec is not encrypted or the key is empty, and then leaves the spec
\* unchanged.
C13_ColumnSpecInvariant ==
  /\ [](/\ col.encrypted_with_footer_key_ => col.key_ = NoBytes
        /\ col.key_ # NoBytes => col.encrypt_ /\ ~col.encrypted_with_footer_key_)
  /\ [][last'.op = "SetEncryptionKey" =>
          /\ last'.thrown # NoThrow <=> (~col.encrypt_ \/ last'.key = NoBytes)
          /\ last'.thrown # NoThrow => col' = col]_vars

\* C13 witness: a SetEncryptionKey call with an empty key failed on a spec
\* that holds an explicit key, which it still holds
C13_Witness ==
  /\ last.op = "SetEncryptionKey"
  /\ last.thrown = ExcNullKey
  /\ col.encrypt_
  /\ col.key_ = K16a
  /\ ~col.encrypted_with_footer_key_

----------------------------------------------------------------------------
(* Claims on FileDecryptionProperties, checked under DecSpec *)

AfterGetColumnKey == status = "running" /\ last.op = "GetColumnKey"

\* what the retriever gives for the key metadata of the last call
C8_FromRetriever ==
  IF key_retriever_ = <<>> THEN last.thrown \in MissingKeyRetriever
  ELSE IF key_retriever_[1][last.key_metadata] = <<>>
       THEN last.thrown \in KeyRetrievalFailed
       ELSE last.thrown = NoThrow /\ last.val = key_retriever_[1][last.key_metadata]

\* C8: ResolveColumnKey(path, key_metadata) with empty metadata returns the
\* key last registered for the dotted path and fails with KeyNotFound when
\* there is none; with non-empty metadata it fails with MissingKeyRetriever
\* without a retriever and else returns what the retriever returns, the
\* retriever's failure being KeyRetrievalFailed.
C8_ResolveColumnKey ==
  AfterGetColumnKey =>
    IF last.key_metadata = NoBytes
    THEN IF registered[last.path] = <<>> THEN last.thrown \in KeyNotFound
         ELSE last.thrown = NoThrow /\ last.val = registered[last.path]
    ELSE C8_FromRetriever

\* C8 witness: the key registered under "a.b" in a second registration was
\* returned for the path <<"a", "b">> and empty metadata
C8_Witness ==
  /\ AfterGetColumnKey
  /\ last.path = "a.b"
  /\ last.key_metadata = NoBytes
  /\ last.thrown = NoThrow
  /\ last.val = <<K24>>
  /\ registered["a"] = <<K16a>>

\* C9 as stated: when a key is registered for the path, ResolveColumnKey
\* returns it for every key metadata, empty or not, with or without a
\* retriever.
C9_StaticEntryPreferred ==
  (AfterGetColumnKey /\ registered[last.path] # <<>>) =>
    last.thrown = NoThrow /\ last.val = registered[last.path]

\* C9 amended: when a key is registered for the path, ResolveColumnKey
\* returns it for empty key metadata only; for non-empty metadata the entry
\* is ignored: the call fails with MissingKeyRetriever without a retriever
\* and else gives the retriever's answer.
C9_StaticEntryForEmptyMetadataOnly ==
  (AfterGetColumnKey /\ registered[last.path] # <<>>) =>
    /\ last.key_metadata = NoBytes =>
         last.thrown = NoThrow /\ last.val = registered[last.path]
    /\ last.key_metadata # NoBytes => C8_FromRetriever

\* C9 witness: a path with a registered key resolved, for non-empty
\* metadata, to the retriever's key, which is another key
C9_Witness ==
  /\ AfterGetColumnKey
  /\ registered[last.path] # <<>>
  /\ last.key_metadata # NoBytes
  /\ last.thrown = NoThrow
  /\ last.val # registered[last.path]

\* C10: ResolveFooterKey with empty metadata returns the literal footer key
\* and fails with KeyNotFound when the policy has none, so that a call that
\* succeeds never yields an empty key; with non-empty metadata it fails
\* with MissingKeyRetriever without a retriever and else returns the
\* retriever's result.
C10_ResolveFooterKey ==
  (status = "running" /\ last.op = "GetFooterKey") =>
    IF last.key_metadata = NoBytes
    THEN IF footer_key_ = NoBytes THEN last.thrown \in KeyNotFound
         ELSE last.thrown = NoThrow /\ last.val = <<footer_key_>>
    ELSE C8_FromRetriever

====
